---- MODULE Spec2Model ----
(***************************************************************************)
(* Clique-percolation pipeline of the PonniyinSelvan community detection   *)
(* scripts: build_graph (per-record threshold filter and aggregation),     *)
(* detect_communities (networkx k_clique_communities), the export of the   *)
(* node/edge view model, and the filter and search handlers of the two     *)
(* exported HTML clients (Plotly dashboard, vis-network page).             *)
(*                                                                         *)
(* Weights are modelled as integers (the code converts them with float();  *)
(* every weight used here is integral, so the sums are exact).             *)
(***************************************************************************)
EXTENDS Integers, Sequences, FiniteSets, TLC

VARIABLES
    df,          \* the interactions table: sequence of rows (source, target, weight)
    chars,       \* the characters table: sequence of rows (name, faction), or NoTable
    threshold,   \* --threshold
    k,           \* --k
    pc,          \* position of main(): "start", "built", "detected", "exported", "failed"
    G,           \* the networkx graph under construction
    comms,       \* list of communities returned by detect_communities
    err,         \* exception that aborted the run, "" when none
    client,      \* which exported page is open: "none", "dashboard", "vis"
    nodesJ,      \* exported nodes JSON (list of node objects)
    edgesJ,      \* exported edges JSON (list of edge objects)
    comm_labels, \* exported community-id -> label map (keys as dumped by json)
    factions_list, \* exported sorted list of distinct factions
    checkedF,    \* data-faction values of the checked faction checkboxes
    checkedC,    \* data-comm values of the checked community checkboxes
    shown,       \* ids of the nodes currently displayed by the client
    alertMsg,    \* last alert() shown by the client, <<>> when none
    highlight,   \* vis client: ids of the nodes whose colour a search changed
    cols,        \* columns of the interactions CSV
    iter,        \* per community, the order in which Python iterates its members
    node_info,   \* per node, the degree and the marker size the exporter computed
    files,       \* files and directories the run has created
    kq,          \* run_cpm_visualize: the k values still to be processed
    marker_color, \* dashboard: the marker colour makeNodeTrace gives each node
    legend,      \* dashboard: the swatch colours of the two legends
    positions,   \* vis page: per item of the nodes DataSet, its x, y and fixed
    storage,     \* vis page: localStorage item 'ps_positions', <<>> when not set
    download     \* vis page: content of the last downloaded ps_positions.json

vars == <<df, chars, threshold, k, pc, G, comms, err, client, nodesJ, edgesJ,
          comm_labels, factions_list, checkedF, checkedC, shown, alertMsg, highlight,
          cols, iter, node_info, files, kq, marker_color, legend,
          positions, storage, download>>

pyVars0 == <<df, chars, threshold, k, G, comms, err>>
vmVars == <<client, nodesJ, edgesJ, comm_labels, factions_list>>
uiVars == <<checkedF, checkedC, shown, alertMsg, highlight>>
inVars == <<cols, iter>>
outVars == <<node_info, files, kq>>
drawVars == <<marker_color, legend>>
posVars == <<positions, storage, download>>

-----------------------------------------------------------------------------
(* Bounds of the model *)

\* longest interactions table enumerated exhaustively
MaxRecords == 3
\* longest interactions table handed to the exporters
ExportRecords == 2
\* communities of the graph whose dashboard colours are examined
ColorComms == 12
\* nodes of that graph that are in no community
ColorSolos == 8
\* number of node names used when every graph over them is enumerated
MaxNodes == 5
\* number of node names used for the graphs handed to the exported clients
ClientNodes == 4
\* largest clique size parameter k tried
MaxK == 4

-----------------------------------------------------------------------------
(* Input universe *)

\* node identities (str(r['source']), str(r['target']))
NameList == <<"A", "B", "a_b", "C", "D", "E", "F", "H", "I", "J">>

Names(n) == {NameList[i] : i \in 1..n}

\* the characters of each identity, as Python/JavaScript see the string
NameChars(n) ==
    CASE n = "a_b" -> <<"a", "_", "b">>
      [] OTHER -> <<n>>

Weights == {3, 5}
Thresholds == {4, 5}

Row(s, t, w) == [source |-> s, target |-> t, weight |-> w]

\* all rows over the first n names
Rows(n) == {Row(s, t, w) : s \in Names(n), t \in Names(n), w \in Weights}

\* all tables of at most m rows over a set of rows
RECURSIVE TablesUpTo(_, _)
TablesUpTo(R, m) ==
    IF m = 0 THEN {<<>>}
    ELSE LET shorter == TablesUpTo(R, m - 1)
         IN shorter \cup {Append(t, r) : t \in {s \in shorter : Len(s) = m - 1}, r \in R}

-----------------------------------------------------------------------------
(* networkx.Graph as build_graph uses it *)

Range(s) == {s[i] : i \in 1..Len(s)}

\* nx.Graph(): nodes in insertion order, edge keys in insertion order, weight
\* keyed by the unordered pair (a self-loop (u,u) has the key {u})
EmptyGraph == [nodes |-> <<>>, order |-> <<>>, weight |-> [e \in {} |-> 0]]

NodeSet(g) == Range(g.nodes)
EdgeSet(g) == DOMAIN g.weight

\* G.has_edge(u, v)
HasEdge(g, u, v) == {u, v} \in EdgeSet(g)

\* G.add_edge(u, v, weight=w) for an edge that is not in the graph yet
AddEdge(g, u, v, w) ==
    LET n1 == IF u \in Range(g.nodes) THEN g.nodes ELSE Append(g.nodes, u)
        n2 == IF v \in Range(n1) THEN n1 ELSE Append(n1, v)
    IN [nodes |-> n2,
        order |-> Append(g.order, {u, v}),
        weight |-> [e \in EdgeSet(g) \cup {{u, v}} |->
                       IF e = {u, v} THEN w ELSE g.weight[e]]]

\* G[u][v]['weight'] += w
AddWeight(g, u, v, w) ==
    [g EXCEPT !.weight = [e \in EdgeSet(g) |->
                             IF e = {u, v} THEN g.weight[e] + w ELSE g.weight[e]]]

\* mutant of Qualifies: exclusive comparison
QualifiesStrict(w, thr) == w > thr

\* if w >= threshold
Qualifies(w, thr) == w >= thr

\* mutant of ProcessRow: the node pair is registered before the weight test
ProcessRowNodesFirst(g, r, thr) ==
    LET u == r.source
        v == r.target
        n1 == IF u \in Range(g.nodes) THEN g.nodes ELSE Append(g.nodes, u)
        n2 == IF v \in Range(n1) THEN n1 ELSE Append(n1, v)
    IN IF Qualifies(r.weight, thr)
       THEN IF HasEdge(g, u, v) THEN AddWeight(g, u, v, r.weight)
            ELSE AddEdge(g, u, v, r.weight)
       ELSE [g EXCEPT !.nodes = n2]

\* an empty CSV cell, read by pandas as float nan
NaNCell == "<NaN>"

\* a weight cell that is not a number is kept in the field "cell" of the row
\* instead of "weight": NaNCell for an empty cell, or the text of the cell
TextCell == "abc"
BadRow(s, t, c) == [source |-> s, target |-> t, cell |-> c]
IsNaN(r) == "weight" \notin DOMAIN r /\ r.cell = NaNCell
IsText(r) == "weight" \notin DOMAIN r /\ r.cell # NaNCell

\* body of the loop of build_graph for one row whose weight converts:
\* float() of an empty cell is nan, and nan >= threshold is False
ProcessRow(g, r, thr) ==
    LET u == r.source
        v == r.target
        w == r.weight
    IN IF IsNaN(r) THEN g
       ELSE IF Qualifies(w, thr)
       THEN IF HasEdge(g, u, v) THEN AddWeight(g, u, v, w)
            ELSE AddEdge(g, u, v, w)
       ELSE g

\* the exception build_graph raises, "" when it returns: r['source'] or
\* r['target'] of the first row when the column is missing, float() of a
\* cell that is not a number
BuildError(d, cs) ==
    IF d # <<>> /\ ~({"source", "target"} \subseteq cs) THEN "KeyError"
    ELSE IF \E i \in 1..Len(d) : IsText(d[i])
         THEN "ValueError: could not convert string to float"
    ELSE ""

\* build_graph(df_edges, threshold): the rows are folded in input order
RECURSIVE build_graph(_, _)
build_graph(d, thr) ==
    IF d = <<>> THEN EmptyGraph
    ELSE ProcessRow(build_graph(SubSeq(d, 1, Len(d) - 1), thr), d[Len(d)], thr)

-----------------------------------------------------------------------------
(* detect_communities: networkx k_clique_communities(G, k) *)

\* neighbours of u as find_cliques sees them (self-loops are left out)
Adj(g, u) == {v \in NodeSet(g) : v # u /\ {u, v} \in EdgeSet(g)}

\* Bron-Kerbosch enumeration of the maximal cliques extending R, with
\* candidates P and excluded nodes X
RECURSIVE BronKerbosch(_, _, _, _)
BronKerbosch(g, R, P, X) ==
    IF P = {}
    THEN IF X = {} THEN {R} ELSE {}
    ELSE LET v == CHOOSE v \in P : TRUE
         IN BronKerbosch(g, R \cup {v}, P \cap Adj(g, v), X \cap Adj(g, v))
            \cup BronKerbosch(g, R, P \ {v}, X \cup {v})

\* nx.find_cliques(G): nothing for the empty graph
find_cliques(g) ==
    IF NodeSet(g) = {} THEN {} ELSE BronKerbosch(g, {}, NodeSet(g), {})

\* mutant of KeepClique: off-by-one size filter
KeepCliqueSmaller(c, kk) == Cardinality(c) >= kk - 1

\* mutant of KeepClique: exclusive size filter
KeepCliqueStrict(c, kk) == Cardinality(c) > kk

\* cliques = [frozenset(c) for c in cliques if len(c) >= k]
KeepClique(c, kk) == Cardinality(c) >= kk

\* mutant of Percolates: k shared nodes are asked for instead of k-1
PercolatesK(c, a, kk) == Cardinality(c \cap a) >= kk

\* if len(clique.intersection(adj_clique)) >= (k - 1)
Percolates(c, a, kk) == Cardinality(c \cap a) >= kk - 1

\* membership_dict[node]: the kept cliques a node is in
Membership(cliques, n) == {c \in cliques : n \in c}

\* _get_adjacent_cliques(clique, membership_dict)
AdjacentCliques(cliques, c) ==
    {a \in UNION {Membership(cliques, n) : n \in c} : a # c}

\* neighbours of a clique in perc_graph
PercNeighbours(cliques, c, kk) ==
    {a \in AdjacentCliques(cliques, c) : Percolates(c, a, kk)}

\* mutant of ComponentOf: only the direct neighbours are collected
ComponentOneHop(cliques, seen, kk) ==
    seen \cup UNION {PercNeighbours(cliques, c, kk) : c \in seen}

\* nx.connected_components: breadth-first closure from the cliques in seen
RECURSIVE ComponentOf(_, _, _)
ComponentOf(cliques, seen, kk) ==
    LET next == seen \cup UNION {PercNeighbours(cliques, c, kk) : c \in seen}
    IN IF next = seen THEN seen ELSE ComponentOf(cliques, next, kk)

\* the connected components of perc_graph
Components(g, kk) ==
    LET cliques == {c \in find_cliques(g) : KeepClique(c, kk)}
    IN {ComponentOf(cliques, {c}, kk) : c \in cliques}

\* every order in which a finite set can be listed
Orderings(S) ==
    {f \in [1..Cardinality(S) -> S] : \A i, j \in 1..Cardinality(S) : f[i] = f[j] => i = j}

\* list(k_clique_communities(G, k)) turned into sets: one entry per component,
\* frozenset.union(*component); the order of the components follows the
\* iteration order of networkx sets and is not pinned by the code
k_clique_communities(g, kk) ==
    {[i \in 1..Len(o) |-> UNION o[i]] : o \in Orderings(Components(g, kk))}

-----------------------------------------------------------------------------
(* The characters table and the exported view model *)

NoTable == [present |-> FALSE, rows |-> <<>>]
Table(rows) == [present |-> TRUE, rows |-> rows]

\* str(r.get('faction','') or ''): nan is truthy, so an empty cell becomes "nan";
\* a table without the column gives ''
FactionStr(r) ==
    IF "faction" \notin DOMAIN r THEN ""
    ELSE IF r.faction = NaNCell THEN "nan" ELSE r.faction

\* faction_map: later rows overwrite earlier rows of the same name
FactionMap(t) ==
    LET rows == IF t.present THEN t.rows ELSE <<>>
        keys == {rows[i].name : i \in 1..Len(rows)}
        Last(n) == CHOOSE i \in 1..Len(rows) :
                      /\ rows[i].name = n
                      /\ \A j \in 1..Len(rows) : rows[j].name = n => j <= i
    IN [n \in keys |-> FactionStr(rows[Last(n)])]

\* faction_map.get(n, dflt)
GetFaction(fm, n, dflt) == IF n \in DOMAIN fm THEN fm[n] ELSE dflt

\* n.replace("_", " ")
Label(n) ==
    LET cs == NameChars(n)
    IN [i \in 1..Len(cs) |-> IF cs[i] = "_" THEN " " ELSE cs[i]]

\* range(n) as a list
RangeSeq(n) == [i \in 1..n |-> i - 1]

\* mutant of NodeComm: community ids counted from 1
NodeCommFromOne(cs, n) ==
    LET Holds(cid) == n \in cs[cid]
    IN SelectSeq([i \in 1..Len(cs) |-> i], Holds)

\* node_comm.get(n, []): ids of the communities holding n, in enumeration order
NodeComm(cs, n) ==
    LET Holds(cid) == n \in cs[cid + 1]
    IN SelectSeq(RangeSeq(Len(cs)), Holds)

\* one exported node object (the fields the two interactive exporters share)
NodeJson(fm, cs, n) ==
    [id |-> n,
     label |-> Label(n),
     faction |-> GetFaction(fm, n, "Unknown"),
     communities |-> NodeComm(cs, n)]

\* nodes list: for n in G.nodes()
NodesJson(g, t, cs) ==
    LET fm == FactionMap(t)
    IN [i \in 1..Len(g.nodes) |-> NodeJson(fm, cs, g.nodes[i])]

Index(s, x) == CHOOSE i \in 1..Len(s) : s[i] = x

\* the edges G.edges() reports while it iterates node n: the edges at n, in
\* the order they were added, whose other end was not iterated before
EdgesAt(g, n) ==
    LET Fresh(e) == n \in e /\ \A m \in e : Index(g.nodes, m) >= Index(g.nodes, n)
        es == SelectSeq(g.order, Fresh)
        Other(e) == IF e = {n} THEN n ELSE CHOOSE m \in e : m # n
    IN [i \in 1..Len(es) |->
           [source |-> n, target |-> Other(es[i]), weight |-> g.weight[es[i]]]]

\* edges list: for u, v, data in G.edges(data=True)
RECURSIVE EdgesFrom(_, _)
EdgesFrom(g, i) ==
    IF i > Len(g.nodes) THEN <<>>
    ELSE EdgesAt(g, g.nodes[i]) \o EdgesFrom(g, i + 1)

EdgesJson(g) == EdgesFrom(g, 1)

\* decimal digits of a non-negative integer: the key json.dumps writes for an
\* int dictionary key, String(x) and `${c.id}` in JavaScript
Digits == <<"0", "1", "2", "3", "4", "5", "6", "7", "8", "9">>
RECURSIVE ToStr(_)
ToStr(n) == IF n < 10 THEN Digits[n + 1] ELSE ToStr(n \div 10) \o Digits[(n % 10) + 1]

\* parseInt of a key written by ToStr
ParseInt(s) == CHOOSE n \in 0..99 : ToStr(n) = s

\* labels a community can get: the majority faction among the members that are
\* in faction_map (Counter.most_common(1); on a tie the faction met first while
\* the set is iterated, so any of the tied factions), else "c<cid>"
LabelChoices(fm, comm, cid) ==
    LET members == {n \in comm : n \in DOMAIN fm}
        Count(f) == Cardinality({n \in members : fm[n] = f})
        best == {fm[n] : n \in {m \in members : \A o \in members : Count(fm[o]) <= Count(fm[m])}}
    IN IF members = {}
       THEN {[text |-> "c" \o ToStr(cid), size |-> Cardinality(comm)]}
       ELSE {[text |-> f, size |-> Cardinality(comm)] : f \in best}

\* community_labels(communities, chars_df) after json.dumps: every map that
\* gives each community one of its possible labels
CommunityLabels(t, cs) ==
    LET fm == FactionMap(t)
        RECURSIVE UpTo(_)
        UpTo(n) ==
            IF n = 0 THEN {[key \in {} |-> 0]}
            ELSE {m @@ (ToStr(n - 1) :> l) :
                     m \in UpTo(n - 1), l \in LabelChoices(fm, cs[n], n - 1)}
    IN UpTo(Len(cs))

\* sorted(): the faction strings of the model in code point order. "U+FF5E"
\* and "U+1D49C" stand for the one-character strings made of the code points
\* U+FF5E and U+1D49C.
FactionOrder ==
    <<"", "Blue", "Chola", "Green", "Pandya", "Red", "Unknown", "nan", "U+FF5E", "U+1D49C">>

\* sorted(list({n['faction'] for n in nodes}))
SortedFactions(ns) ==
    LET Used(f) == \E i \in 1..Len(ns) : ns[i].faction = f
    IN SelectSeq(FactionOrder, Used)

-----------------------------------------------------------------------------
(* main(): the batch pipeline *)

\* G = build_graph(df, threshold=threshold)
BuildGraph ==
    /\ pc = "start"
    /\ IF BuildError(df, cols) # ""
       THEN /\ err' = BuildError(df, cols)
            /\ pc' = "failed"
            /\ G' = G
       ELSE /\ G' = build_graph(df, threshold)
            /\ pc' = "built"
            /\ err' = err
    /\ UNCHANGED <<df, chars, threshold, k, comms>>
    /\ UNCHANGED vmVars
    /\ UNCHANGED uiVars
    /\ UNCHANGED inVars
    /\ UNCHANGED outVars
    /\ UNCHANGED drawVars
    /\ UNCHANGED posVars

\* comms = detect_communities(G, k=k); k_clique_communities raises
\* NetworkXError for k < 2
DetectCommunities ==
    /\ pc = "built"
    /\ IF k < 2
       THEN /\ err' = "NetworkXError"
            /\ pc' = "failed"
            /\ comms' = comms
       ELSE /\ comms' \in k_clique_communities(G, k)
            /\ pc' = "detected"
            /\ err' = err
    /\ UNCHANGED <<df, chars, threshold, k, G>>
    /\ UNCHANGED vmVars
    /\ UNCHANGED uiVars
    /\ UNCHANGED inVars
    /\ UNCHANGED outVars
    /\ UNCHANGED drawVars
    /\ UNCHANGED posVars

NextPy == BuildGraph \/ DetectCommunities

\* columns of a well-formed interactions CSV
AllColumns == {"source", "target", "weight"}

\* default of --threshold
DefaultThreshold == 4

\* state of a run before main() starts, for given inputs
InitWith(d, t, thr, kk) ==
    /\ df = d
    /\ chars = t
    /\ threshold = thr
    /\ k = kk
    /\ pc = "start"
    /\ G = EmptyGraph
    /\ comms = <<>>
    /\ err = ""
    /\ client = "none"
    /\ nodesJ = <<>>
    /\ edgesJ = <<>>
    /\ comm_labels = <<>>
    /\ factions_list = <<>>
    /\ checkedF = {}
    /\ checkedC = {}
    /\ shown = {}
    /\ alertMsg = <<>>
    /\ highlight = {}
    /\ cols = AllColumns
    /\ iter = <<>>
    /\ node_info = <<>>
    /\ files = {}
    /\ kq = <<>>
    /\ marker_color = <<>>
    /\ legend = <<>>
    /\ positions = <<>>
    /\ storage = <<>>
    /\ download = <<>>

(* Input family 1: every interactions table of at most MaxRecords rows over
   three names, both directions and self-loops included *)
BuildNames == {"A", "B", "C"}
BuildRows == {Row(s, t, w) : s \in BuildNames, t \in BuildNames, w \in Weights}

BuildKs == {2, 3}

InitBuild ==
    \E d \in TablesUpTo(BuildRows, MaxRecords), thr \in Thresholds, kk \in BuildKs :
        InitWith(d, NoTable, thr, kk)

SpecBuild == InitBuild /\ [][NextPy]_vars

(* Input family 2: every simple graph over the first MaxNodes names, written
   as a table with one qualifying row per edge, and a chain of triangles
   that passes through the three corners of a separate triangle *)
RECURSIVE PairsFrom(_, _, _)
PairsFrom(i, j, n) ==
    IF i >= n THEN <<>>
    ELSE IF j > n THEN PairsFrom(i + 1, i + 2, n)
    ELSE <<<<NameList[i], NameList[j]>>>> \o PairsFrom(i, j + 1, n)

PairList(n) == PairsFrom(1, 2, n)

GraphTable(pairs, E) ==
    LET In(p) == p \in E
        ps == SelectSeq(pairs, In)
    IN [i \in 1..Len(ps) |-> Row(ps[i][1], ps[i][2], 5)]

GraphTables(n) == {GraphTable(PairList(n), E) : E \in SUBSET Range(PairList(n))}

ChainPairs ==
    << <<"A", "B">>, <<"A", "C">>, <<"B", "C">>,
       <<"A", "D">>, <<"A", "E">>, <<"D", "E">>,
       <<"D", "F">>, <<"E", "F">>,
       <<"E", "H">>, <<"F", "H">>,
       <<"B", "F">>, <<"B", "H">>,
       <<"F", "I">>, <<"H", "I">>,
       <<"H", "J">>, <<"I", "J">>,
       <<"C", "I">>, <<"C", "J">> >>

ChainTable == GraphTable(ChainPairs, Range(ChainPairs))

InitCPM ==
    \E d \in GraphTables(MaxNodes) \cup {ChainTable}, kk \in 1..MaxK :
        InitWith(d, NoTable, DefaultThreshold, kk)

SpecCPM == InitCPM /\ [][NextPy]_vars

-----------------------------------------------------------------------------
(* Export of the two interactive pages *)

\* G.degree(weight='weight') of one node: the weights of the edges at the
\* node, a self-loop counted twice
RECURSIVE DegreeOver(_, _, _)
DegreeOver(g, n, E) ==
    IF E = {} THEN 0
    ELSE LET e == CHOOSE x \in E : TRUE
             w == IF n \notin e THEN 0
                  ELSE IF e = {n} THEN 2 * g.weight[e] ELSE g.weight[e]
         IN w + DegreeOver(g, n, E \ {e})

Degree(g, n) == DegreeOver(g, n, EdgeSet(g))

\* maxdeg = max(degrees.values()) if degrees else 1
MaxDeg(g) ==
    IF NodeSet(g) = {} THEN 1
    ELSE CHOOSE m \in {Degree(g, n) : n \in NodeSet(g)} :
             \A n \in NodeSet(g) : Degree(g, n) <= m

\* a quotient of two integers, kept exact, with a positive denominator
Rat(n, d) == IF d > 0 THEN [num |-> n, den |-> d] ELSE [num |-> -n, den |-> -d]

\* int(x) of a quotient: truncation towards zero
Trunc(n, d) ==
    LET q == Rat(n, d)
    IN IF q.num >= 0 THEN q.num \div q.den ELSE -((-q.num) \div q.den)

\* "size": 8 + (degrees.get(n,0)/maxdeg)*28 if maxdeg>0 else 10
DashboardSize(deg, maxdeg) ==
    IF maxdeg > 0 THEN Rat(8 * maxdeg + 28 * deg, maxdeg) ELSE Rat(10, 1)

\* "value": int(5 + (degrees.get(n,0)/maxdeg)*25), for maxdeg # 0
VisValue(deg, maxdeg) == Trunc(5 * maxdeg + 25 * deg, maxdeg)

\* size = 8 + (info['degree'] / maxdeg) * 30, for maxdeg # 0
PlotlySize(deg, maxdeg) == Rat(8 * maxdeg + 30 * deg, maxdeg)

\* a division by maxdeg is evaluated (the graph has a node) and maxdeg is 0
DividesByZero(g) == NodeSet(g) # {} /\ MaxDeg(g) = 0

\* the file named by --out
OutFile == "out.html"

\* export_plotly_dashboard.main after detect_communities: the view model is
\* dumped into HTML_TEMPLATE and written to --out
ExportDashboard ==
    /\ pc = "detected"
    /\ nodesJ' = NodesJson(G, chars, comms)
    /\ edgesJ' = EdgesJson(G)
    /\ comm_labels' \in CommunityLabels(chars, comms)
    /\ factions_list' = SortedFactions(nodesJ')
    /\ node_info' = [n \in NodeSet(G) |->
                        [degree |-> Degree(G, n),
                         size |-> DashboardSize(Degree(G, n), MaxDeg(G))]]
    /\ files' = files \cup {OutFile}
    /\ client' = "dashboard"
    /\ pc' = "exported"
    /\ UNCHANGED <<df, chars, threshold, k, G, comms, err>>
    /\ UNCHANGED uiVars
    /\ UNCHANGED inVars
    /\ UNCHANGED kq
    /\ UNCHANGED drawVars
    /\ UNCHANGED posVars

\* export_vis_draggable.main after detect_communities: prepare_json, the
\* dump into VIS_TEMPLATE and the write to --out; prepare_json raises
\* ZeroDivisionError when the largest weighted degree is 0
ExportVis ==
    /\ pc = "detected"
    /\ IF DividesByZero(G)
       THEN /\ err' = "ZeroDivisionError"
            /\ pc' = "failed"
            /\ UNCHANGED <<nodesJ, edgesJ, comm_labels, factions_list, node_info, files, client>>
       ELSE /\ nodesJ' = NodesJson(G, chars, comms)
            /\ edgesJ' = EdgesJson(G)
            /\ comm_labels' \in CommunityLabels(chars, comms)
            /\ factions_list' = SortedFactions(nodesJ')
            /\ node_info' = [n \in NodeSet(G) |->
                                [value |-> VisValue(Degree(G, n), MaxDeg(G))]]
            /\ files' = files \cup {OutFile}
            /\ client' = "vis"
            /\ pc' = "exported"
            /\ err' = err
    /\ UNCHANGED <<df, chars, threshold, k, G, comms>>
    /\ UNCHANGED uiVars
    /\ UNCHANGED inVars
    /\ UNCHANGED kq
    /\ UNCHANGED drawVars
    /\ UNCHANGED posVars

\* run_plotly_network.main after detect_communities: make_plotly_html and
\* fig.write_html; the size formula raises ZeroDivisionError when the
\* largest weighted degree is 0
ExportPlotly ==
    /\ pc = "detected"
    /\ IF DividesByZero(G)
       THEN /\ err' = "ZeroDivisionError"
            /\ pc' = "failed"
            /\ UNCHANGED <<node_info, files, client>>
       ELSE /\ node_info' = [n \in NodeSet(G) |->
                                [degree |-> Degree(G, n),
                                 size |-> PlotlySize(Degree(G, n), MaxDeg(G))]]
            /\ files' = files \cup {OutFile}
            /\ client' = "plotly"
            /\ pc' = "written"
            /\ err' = err
    /\ UNCHANGED <<nodesJ, edgesJ, comm_labels, factions_list>>
    /\ UNCHANGED <<df, chars, threshold, k, G, comms>>
    /\ UNCHANGED uiVars
    /\ UNCHANGED inVars
    /\ UNCHANGED kq
    /\ UNCHANGED drawVars
    /\ UNCHANGED posVars

-----------------------------------------------------------------------------
(* The scripts of the exported pages *)

\* toLowerCase() on the characters of the model
LowerChar(c) ==
    CASE c = "A" -> "a" [] c = "B" -> "b" [] c = "C" -> "c" [] c = "D" -> "d"
      [] c = "E" -> "e" [] c = "F" -> "f" [] c = "H" -> "h" [] c = "I" -> "i"
      [] c = "J" -> "j" [] OTHER -> c

ToLower(s) == [i \in 1..Len(s) |-> LowerChar(s[i])]

\* trim()
RECURSIVE Trim(_)
Trim(s) ==
    IF s = <<>> THEN s
    ELSE IF Head(s) = " " THEN Trim(Tail(s))
    ELSE IF s[Len(s)] = " " THEN Trim(SubSeq(s, 1, Len(s) - 1))
    ELSE s

\* hay.includes(needle), hay.indexOf(needle) >= 0
Contains(hay, needle) ==
    \E i \in 0..(Len(hay) - Len(needle)) : SubSeq(hay, i + 1, i + Len(needle)) = needle

Ids(ns) == {ns[i].id : i \in 1..Len(ns)}

\* mutant of VisibleDashboard: the two facets are combined with OR
VisibleDashboardOr(ns, cf, cc) ==
    LET activeComms == {ParseInt(c) : c \in cc}
        Keep(n) ==
            \/ cf = {} \/ n.faction \in cf
            \/ activeComms = {} \/ \E x \in Range(n.communities) : x \in activeComms
    IN {ns[i].id : i \in {j \in 1..Len(ns) : Keep(ns[j])}}

\* dashboard applyFilters: ids of the allowed nodes (the new node trace)
VisibleDashboard(ns, cf, cc) ==
    LET activeComms == {ParseInt(c) : c \in cc}
        Keep(n) ==
            IF cf # {} /\ n.faction \notin cf THEN FALSE
            ELSE IF activeComms # {}
                 THEN IF Len(n.communities) = 0 THEN FALSE
                      ELSE \E x \in Range(n.communities) : x \in activeComms
                 ELSE TRUE
    IN {ns[i].id : i \in {j \in 1..Len(ns) : Keep(ns[j])}}

\* vis applyFilters: ids of the nodes left with hidden = false
VisibleVis(ns, cf, cc) ==
    LET Keep(n) ==
            IF cf # {} /\ n.faction \notin cf THEN FALSE
            ELSE IF cc # {}
                 THEN IF Len(n.communities) = 0 THEN FALSE
                      ELSE \E x \in Range(n.communities) : ToStr(x) \in cc
                 ELSE TRUE
    IN {ns[i].id : i \in {j \in 1..Len(ns) : Keep(ns[j])}}

Visible(cl, ns, cf, cc) ==
    IF cl = "dashboard" THEN VisibleDashboard(ns, cf, cc) ELSE VisibleVis(ns, cf, cc)

\* nodes.filter(n => n.label.toLowerCase().includes(q)), in list order
Found(ns, q) ==
    LET Hit(n) == Contains(ToLower(n.label), q)
    IN SelectSeq(ns, Hit)

\* mutant of DashboardSearch: a miss redraws the node trace with no node
DashboardSearchBlank(ns, es, cf, cc, cur, value) ==
    LET q == ToLower(Trim(value))
        ids == Ids(Found(ns, q))
        nb == {es[i].target : i \in {j \in 1..Len(es) : es[j].source \in ids}}
              \cup {es[i].source : i \in {j \in 1..Len(es) : es[j].target \in ids}}
    IN IF q = <<>> THEN [shown |-> VisibleDashboard(ns, cf, cc), alert |-> <<>>]
       ELSE IF ids # {} THEN [shown |-> ids \cup nb, alert |-> <<>>]
       ELSE [shown |-> {}, alert |-> <<"No node found for: ", q>>]

\* dashboard search handler on Enter: the node trace it leaves and the alert
\* it raises (<<>> when it raises none)
DashboardSearch(ns, es, cf, cc, cur, value) ==
    LET q == ToLower(Trim(value))
        ids == Ids(Found(ns, q))
        nb == {es[i].target : i \in {j \in 1..Len(es) : es[j].source \in ids}}
              \cup {es[i].source : i \in {j \in 1..Len(es) : es[j].target \in ids}}
    IN IF q = <<>> THEN [shown |-> VisibleDashboard(ns, cf, cc), alert |-> <<>>]
       ELSE IF ids # {} THEN [shown |-> ids \cup nb, alert |-> <<>>]
       ELSE [shown |-> cur, alert |-> <<"No node found for: ", q>>]

\* vis search handler on Enter: the nodes it recolours and the alert it raises
VisSearch(ns, hl, value) ==
    LET q == ToLower(Trim(value))
        found == Found(ns, q)
    IN IF q = <<>> THEN [highlight |-> hl, alert |-> <<>>]
       ELSE IF found = <<>> THEN [highlight |-> hl, alert |-> <<"No node">>]
       ELSE [highlight |-> hl \cup {found[1].id}, alert |-> <<>>]

\* values typed into the search box
Queries == {<<>>, <<" ", "B", " ">>, <<"_">>}

\* const colorPalette, const factionColors
colorPalette ==
    <<"#636EFA", "#EF553B", "#00CC96", "#AB63FA", "#FFA15A",
      "#19D3F3", "#FF6692", "#B6E880", "#FF97FF", "#FECB52">>
factionColors == <<"#4C9F70", "#2F8AC8", "#C85A7A", "#8C6EFF", "#E99E3A", "#6FB7E6">>

\* arr[i] of JavaScript (indices from 0)
At0(arr, i) == arr[i + 1]

\* arr.indexOf(x)
IndexOf(arr, x) ==
    IF x \in Range(arr) THEN (CHOOSE i \in 1..Len(arr) : arr[i] = x) - 1 ELSE -1

\* Array.prototype.sort() without a comparator orders strings by UTF-16 code
\* units: U+1D49C is the surrogate pair D835 DC9C and comes before U+FF5E
JsFactionOrder ==
    <<"", "Blue", "Chola", "Green", "Pandya", "Red", "Unknown", "nan", "U+1D49C", "U+FF5E">>

\* const factions = Array.from(new Set(nodes.map(n=>n.faction))).sort()
JsSortedFactions(ns) ==
    LET Used(f) == \E i \in 1..Len(ns) : ns[i].faction = f
    IN SelectSeq(JsFactionOrder, Used)

\* makeNodeTrace: the marker colour of node n, fl being factions_list
NodeColor(n, fl) ==
    IF Len(n.communities) > 0
    THEN At0(colorPalette, n.communities[1] % Len(colorPalette))
    ELSE LET fidx == IndexOf(fl, n.faction)
         IN IF fidx >= 0 THEN At0(factionColors, fidx % Len(factionColors)) ELSE "#B0B0B0"

\* the swatches of the faction legend and of the community legend
Legends(ns, labels) ==
    LET fs == JsSortedFactions(ns)
    IN [factions |-> [f \in Range(fs) |-> At0(factionColors, IndexOf(fs, f) % Len(factionColors))],
        comms |-> [key \in DOMAIN labels |->
                      At0(colorPalette, ParseInt(key) % Len(colorPalette))]]

\* one item of the nodes DataSet as the network places it
Placed(x, y, fixed) == [x |-> x, y |-> y, fixed |-> fixed]

\* new vis.Network(container, data, options): every node of nodesData is an
\* item of the DataSet; the physics engine gives each node a place of its own
\* (here: the i-th node at x = i, y = 0) and fixes none
InitialPositions(ns) ==
    [id \in Ids(ns) |-> Placed(CHOOSE i \in 1..Len(ns) : ns[i].id = id, 0, FALSE)]

\* the page script runs once: checkboxes and legends are created, the
\* dashboard draws every node, the vis page calls applyFilters()
OpenPage ==
    /\ pc = "exported"
    /\ pc' = "open"
    /\ IF client = "dashboard"
       THEN /\ checkedF' = {nodesJ[i].faction : i \in 1..Len(nodesJ)}
            /\ checkedC' = {ToStr(ParseInt(key)) : key \in DOMAIN comm_labels}
            /\ shown' = Ids(nodesJ)
            /\ legend' = Legends(nodesJ, comm_labels)
            /\ marker_color' = [id \in Ids(nodesJ) |->
                   NodeColor(nodesJ[CHOOSE i \in 1..Len(nodesJ) : nodesJ[i].id = id],
                             factions_list)]
            /\ UNCHANGED posVars
       ELSE /\ checkedF' = Range(factions_list)
            /\ checkedC' = DOMAIN comm_labels
            /\ shown' = VisibleVis(nodesJ, checkedF', checkedC')
            /\ positions' = InitialPositions(nodesJ)
            /\ UNCHANGED <<storage, download>>
            /\ UNCHANGED drawVars
    /\ UNCHANGED <<alertMsg, highlight>>
    /\ UNCHANGED pyVars0
    /\ UNCHANGED vmVars
    /\ UNCHANGED inVars
    /\ UNCHANGED outVars

Toggle(S, x) == IF x \in S THEN S \ {x} ELSE S \cup {x}

\* change event of a faction checkbox
FactionChange ==
    /\ pc = "open"
    /\ \E f \in {nodesJ[i].faction : i \in 1..Len(nodesJ)} :
          /\ checkedF' = Toggle(checkedF, f)
          /\ shown' = Visible(client, nodesJ, checkedF', checkedC)
    /\ UNCHANGED <<checkedC, alertMsg, highlight, pc>>
    /\ UNCHANGED pyVars0
    /\ UNCHANGED vmVars
    /\ UNCHANGED inVars
    /\ UNCHANGED outVars
    /\ UNCHANGED drawVars
    /\ UNCHANGED posVars

\* change event of a community checkbox
CommChange ==
    /\ pc = "open"
    /\ \E c \in DOMAIN comm_labels :
          /\ checkedC' = Toggle(checkedC, c)
          /\ shown' = Visible(client, nodesJ, checkedF, checkedC')
    /\ UNCHANGED <<checkedF, alertMsg, highlight, pc>>
    /\ UNCHANGED pyVars0
    /\ UNCHANGED vmVars
    /\ UNCHANGED inVars
    /\ UNCHANGED outVars
    /\ UNCHANGED drawVars
    /\ UNCHANGED posVars

\* keydown Enter in the search box holding value
SearchEnter(value) ==
    /\ pc = "open"
    /\ IF client = "dashboard"
       THEN LET r == DashboardSearch(nodesJ, edgesJ, checkedF, checkedC, shown, value)
            IN /\ shown' = r.shown
               /\ alertMsg' = IF r.alert = <<>> THEN alertMsg ELSE r.alert
               /\ highlight' = highlight
       ELSE LET r == VisSearch(nodesJ, highlight, value)
            IN /\ highlight' = r.highlight
               /\ alertMsg' = IF r.alert = <<>> THEN alertMsg ELSE r.alert
               /\ shown' = shown
    /\ UNCHANGED <<checkedF, checkedC, pc>>
    /\ UNCHANGED pyVars0
    /\ UNCHANGED vmVars
    /\ UNCHANGED inVars
    /\ UNCHANGED outVars
    /\ UNCHANGED drawVars
    /\ UNCHANGED posVars

Search == \E value \in Queries : SearchEnter(value)

\* vis page: the 3 s timer of a search resets the colour of its node
HighlightTimeout ==
    /\ pc = "open"
    /\ client = "vis"
    /\ \E id \in highlight : highlight' = highlight \ {id}
    /\ UNCHANGED <<checkedF, checkedC, shown, alertMsg, pc>>
    /\ UNCHANGED pyVars0
    /\ UNCHANGED vmVars
    /\ UNCHANGED inVars
    /\ UNCHANGED outVars
    /\ UNCHANGED drawVars
    /\ UNCHANGED posVars

\* nodes.update({id: id, x: x, y: y, fixed: {x: true, y: true}}): DataSet.update
\* changes the item with that id and creates the item when there is none
UpdatePosition(ps, id, x, y) ==
    [i \in DOMAIN ps \cup {id} |-> IF i = id THEN Placed(x, y, TRUE) ELSE ps[i]]

\* network.getPositions(): { nodeId: {x, y} } for every node of the network
GetPositions(ps) == [id \in DOMAIN ps |-> [x |-> ps[id].x, y |-> ps[id].y]]

\* a parsed positions object as the list of its keys (Object.keys order), each
\* with its value: an object with x and y, a number, or null
XY(id, x, y) == [id |-> id, kind |-> "xy", x |-> x, y |-> y]
NotAnObject(id) == [id |-> id, kind |-> "number", x |-> 0, y |-> 0]
Null(id) == [id |-> id, kind |-> "null", x |-> 0, y |-> 0]

\* Object.keys(pos) of what getPositions returned, each key with its value
\* (the keys are distinct, so the order of the list does not show in what the
\* load handler does with it)
RECURSIVE KeysOf(_, _)
KeysOf(m, S) ==
    IF S = {} THEN <<>>
    ELSE LET id == CHOOSE a \in S : TRUE
         IN <<XY(id, m[id].x, m[id].y)>> \o KeysOf(m, S \ {id})

\* the forEach of the upload handler over the entries es: an entry that is
\* not an object is skipped, 'x' in null throws (the outer catch ends the
\* loop), any other entry goes to nodes.update; ok is FALSE when it threw
RECURSIVE ApplyUpload(_, _)
ApplyUpload(ps, es) ==
    IF es = <<>> THEN [positions |-> ps, ok |-> TRUE]
    ELSE LET e == Head(es)
         IN IF e.kind = "null" THEN [positions |-> ps, ok |-> FALSE]
            ELSE IF e.kind = "xy"
                 THEN ApplyUpload(UpdatePosition(ps, e.id, e.x, e.y), Tail(es))
                 ELSE ApplyUpload(ps, Tail(es))

\* the forEach of the load handler over the entries es
RECURSIVE ApplyLoad(_, _)
ApplyLoad(ps, es) ==
    IF es = <<>> THEN ps
    ELSE ApplyLoad(UpdatePosition(ps, Head(es).id, Head(es).x, Head(es).y), Tail(es))

\* the items of the DataSet the network draws: an item created by
\* nodes.update has no hidden attribute
Displayed(sh, before, after) == sh \cup (DOMAIN after \ DOMAIN before)

\* where a dragged node can be dropped
DropPoints == {<<7, 7>>}

\* a displayed node that is not fixed is dragged to another place
Drag ==
    /\ pc = "open"
    /\ client = "vis"
    /\ \E id \in shown \cap DOMAIN positions, p \in DropPoints :
          /\ ~positions[id].fixed
          /\ <<positions[id].x, positions[id].y>> # p
          /\ positions' = [positions EXCEPT ![id] = Placed(p[1], p[2], FALSE)]
    /\ UNCHANGED <<storage, download>>
    /\ UNCHANGED <<pc>>
    /\ UNCHANGED pyVars0
    /\ UNCHANGED vmVars
    /\ UNCHANGED uiVars
    /\ UNCHANGED inVars
    /\ UNCHANGED outVars
    /\ UNCHANGED drawVars

\* click on save-pos-btn
SavePositions ==
    /\ pc = "open"
    /\ client = "vis"
    /\ storage' = <<GetPositions(positions)>>
    /\ alertMsg' = <<"Positions saved to localStorage">>
    /\ UNCHANGED <<positions, download>>
    /\ UNCHANGED <<checkedF, checkedC, shown, highlight, pc>>
    /\ UNCHANGED pyVars0
    /\ UNCHANGED vmVars
    /\ UNCHANGED inVars
    /\ UNCHANGED outVars
    /\ UNCHANGED drawVars

\* click on load-pos-btn
LoadPositions ==
    /\ pc = "open"
    /\ client = "vis"
    /\ IF storage = <<>>
       THEN /\ alertMsg' = <<"No saved positions">>
            /\ UNCHANGED <<positions, shown>>
       ELSE /\ positions' = ApplyLoad(positions, KeysOf(storage[1], DOMAIN storage[1]))
            /\ shown' = Displayed(shown, positions, positions')
            /\ alertMsg' = <<"Positions loaded (nodes fixed). Reload to unlock if needed.">>
    /\ UNCHANGED <<storage, download>>
    /\ UNCHANGED <<checkedF, checkedC, highlight, pc>>
    /\ UNCHANGED pyVars0
    /\ UNCHANGED vmVars
    /\ UNCHANGED inVars
    /\ UNCHANGED outVars
    /\ UNCHANGED drawVars

\* click on download-pos-btn
DownloadPositions ==
    /\ pc = "open"
    /\ client = "vis"
    /\ download' = <<GetPositions(positions)>>
    /\ UNCHANGED <<positions, storage>>
    /\ UNCHANGED <<pc>>
    /\ UNCHANGED pyVars0
    /\ UNCHANGED vmVars
    /\ UNCHANGED uiVars
    /\ UNCHANGED inVars
    /\ UNCHANGED outVars
    /\ UNCHANGED drawVars

\* reader.onload of the upload handler for a file that parses to the entries
\* es
UploadParsed(es) ==
    /\ pc = "open"
    /\ client = "vis"
    /\ LET r == ApplyUpload(positions, es)
       IN /\ positions' = r.positions
          /\ shown' = Displayed(shown, positions, positions')
          /\ alertMsg' = IF r.ok
                         THEN <<"Positions loaded from file (nodes fixed). Reload to unlock if needed.">>
                         ELSE <<"Failed to parse positions file: TypeError">>
    /\ UNCHANGED <<storage, download>>
    /\ UNCHANGED <<checkedF, checkedC, highlight, pc>>
    /\ UNCHANGED pyVars0
    /\ UNCHANGED vmVars
    /\ UNCHANGED inVars
    /\ UNCHANGED outVars
    /\ UNCHANGED drawVars

\* reader.onload for a file that is not JSON: JSON.parse throws
UploadUnparsed ==
    /\ pc = "open"
    /\ client = "vis"
    /\ alertMsg' = <<"Failed to parse positions file: SyntaxError">>
    /\ UNCHANGED posVars
    /\ UNCHANGED <<checkedF, checkedC, shown, highlight, pc>>
    /\ UNCHANGED pyVars0
    /\ UNCHANGED vmVars
    /\ UNCHANGED inVars
    /\ UNCHANGED outVars
    /\ UNCHANGED drawVars

(* Input family 8: the vis page of the graph A-B, with or without a node C
   that only has a self-loop, and positions files that name a node of the
   page, name an id the page does not have, or hold values that are not
   positions *)
PositionTables ==
    {<<Row("A", "B", 5)>>, <<Row("A", "B", 5), Row("C", "C", 5)>>}

Uploads ==
    {<<XY("A", 3, 3)>>,
     <<XY("Z", 3, 3)>>,
     <<NotAnObject("B"), Null("A"), XY("B", 3, 3)>>}

Upload == UploadUnparsed \/ \E es \in Uploads : UploadParsed(es)

(* Input family 3: every simple graph over the first ClientNodes names, with
   a characters table that leaves some nodes out *)
ClientTable ==
    Table(<< [name |-> "A", faction |-> "Red"],
             [name |-> "B", faction |-> "Blue"],
             [name |-> "a_b", faction |-> "Red"] >>)

ClientKs == {2, 3}

Init ==
    \E d \in GraphTables(ClientNodes), kk \in ClientKs :
        InitWith(d, ClientTable, DefaultThreshold, kk)

Next ==
    \/ BuildGraph
    \/ DetectCommunities
    \/ ExportDashboard
    \/ ExportVis
    \/ OpenPage
    \/ FactionChange
    \/ CommChange
    \/ Search
    \/ HighlightTimeout

Spec == Init /\ [][Next]_vars

InitPositions ==
    \E d \in PositionTables : InitWith(d, ClientTable, DefaultThreshold, 2)

NextPositions ==
    \/ BuildGraph
    \/ DetectCommunities
    \/ ExportVis
    \/ OpenPage
    \/ CommChange
    \/ Drag
    \/ SavePositions
    \/ LoadPositions
    \/ DownloadPositions
    \/ Upload

SpecPositions == InitPositions /\ [][NextPositions]_vars

(* Input family 9: every simple graph over the first MaxNodes names with
   k = 3 (from five names on, two communities can share a node), exported by
   the two interactive exporters *)
InitViewModel ==
    \E d \in GraphTables(MaxNodes) : InitWith(d, ClientTable, DefaultThreshold, 3)

NextViewModel ==
    \/ BuildGraph
    \/ DetectCommunities
    \/ ExportDashboard
    \/ ExportVis

SpecViewModel == InitViewModel /\ [][NextViewModel]_vars

-----------------------------------------------------------------------------
(* community_labels / get_community_label_map / the label loop of
   prepare_json, as a function of the communities, the order in which each
   community set is iterated, and the characters table *)

\* factions = [faction_map.get(n,"") for n in comm if n in faction_map]
MemberFactions(fm, order) ==
    LET InMap(n) == n \in DOMAIN fm
        ms == SelectSeq(order, InMap)
    IN [i \in 1..Len(ms) |-> fm[ms[i]]]

\* keys of Counter(factions): each faction once, in order of first occurrence
RECURSIVE CounterKeys(_)
CounterKeys(fs) ==
    IF fs = <<>> THEN <<>>
    ELSE LET rest == CounterKeys(SubSeq(fs, 1, Len(fs) - 1))
             last == fs[Len(fs)]
         IN IF last \in Range(rest) THEN rest ELSE Append(rest, last)

\* Counter(factions)[f]
CounterCount(fs, f) == Cardinality({i \in 1..Len(fs) : fs[i] = f})

\* mutant of MostCommonFrom: a later key with an equal count replaces the best
RECURSIVE MostCommonLastFrom(_, _, _)
MostCommonLastFrom(fs, keys, best) ==
    IF keys = <<>> THEN best
    ELSE MostCommonLastFrom(fs, Tail(keys),
             IF CounterCount(fs, Head(keys)) >= CounterCount(fs, best)
             THEN Head(keys) ELSE best)

\* most_common(1): heapq.nlargest(1, ...) is max(items, key=count), which
\* keeps the first of the entries with the largest count
RECURSIVE MostCommonFrom(_, _, _)
MostCommonFrom(fs, keys, best) ==
    IF keys = <<>> THEN best
    ELSE MostCommonFrom(fs, Tail(keys),
             IF CounterCount(fs, Head(keys)) > CounterCount(fs, best)
             THEN Head(keys) ELSE best)

\* Counter(factions).most_common(1)[0][0] for a non-empty list
MostCommon(fs) ==
    LET keys == CounterKeys(fs)
    IN MostCommonFrom(fs, Tail(keys), Head(keys))

\* the label of community cid: f"{most[0]} (size={len(comm)})" or
\* f"c{cid} (size={len(comm)})", kept as its two parts
LabelFor(fm, order, cid) ==
    LET fs == MemberFactions(fm, order)
    IN IF fs # <<>>
       THEN [text |-> MostCommon(fs), size |-> Len(order)]
       ELSE [text |-> "c" \o ToStr(cid), size |-> Len(order)]

\* community_labels(communities, chars_df)
community_labels(t, orders) ==
    LET fm == FactionMap(t)
    IN [cid \in 0..(Len(orders) - 1) |-> LabelFor(fm, orders[cid + 1], cid)]

LabelCommunities ==
    /\ pc = "labels:call"
    /\ comm_labels' = community_labels(chars, iter)
    /\ pc' = "labels:done"
    /\ UNCHANGED <<client, nodesJ, edgesJ, factions_list>>
    /\ UNCHANGED pyVars0
    /\ UNCHANGED uiVars
    /\ UNCHANGED inVars
    /\ UNCHANGED outVars
    /\ UNCHANGED drawVars
    /\ UNCHANGED posVars

(* Input family 4: one or two communities over four names, every iteration
   order of the first one, and every characters table that gives each of
   A, B, C no row, a Red row, a Blue row or a row with an empty faction
   cell, plus a table without a faction column *)
LabelNames == {"A", "B", "C", "D"}

CellChoices == {"absent", "Red", "Blue", NaNCell}

CellTable(f) ==
    LET Present(n) == f[n] # "absent"
        ns == SelectSeq(<<"A", "B", "C">>, Present)
    IN Table([i \in 1..Len(ns) |-> [name |-> ns[i], faction |-> f[ns[i]]]])

NoFactionColumn == Table(<< [name |-> "A"], [name |-> "B"] >>)

LabelTables ==
    {CellTable(f) : f \in [{"A", "B", "C"} -> CellChoices]} \cup {NoTable, NoFactionColumn}

IterOrders ==
    LET first == UNION {Orderings(S) : S \in {T \in SUBSET LabelNames : Cardinality(T) >= 2}}
    IN {<<o>> : o \in first} \cup {<<o, <<"D", "E">>>> : o \in first}

\* nothing exported, no page open, nothing written
NothingExported ==
    /\ client = "none"
    /\ nodesJ = <<>>
    /\ edgesJ = <<>>
    /\ comm_labels = <<>>
    /\ factions_list = <<>>
    /\ checkedF = {}
    /\ checkedC = {}
    /\ shown = {}
    /\ alertMsg = <<>>
    /\ highlight = {}
    /\ node_info = <<>>
    /\ files = {}
    /\ marker_color = <<>>
    /\ legend = <<>>
    /\ positions = <<>>
    /\ storage = <<>>
    /\ download = <<>>

InitLabels ==
    \E t \in LabelTables, o \in IterOrders :
        /\ df = <<>>
        /\ chars = t
        /\ threshold = DefaultThreshold
        /\ k = 2
        /\ pc = "labels:call"
        /\ G = EmptyGraph
        /\ comms = [i \in 1..Len(o) |-> Range(o[i])]
        /\ err = ""
        /\ NothingExported
        /\ cols = AllColumns
        /\ iter = o
        /\ kq = <<>>

SpecLabels == InitLabels /\ [][LabelCommunities]_vars

-----------------------------------------------------------------------------
(* The three exporters run on small tables *)

(* Input family 5: every interactions table of at most ExportRecords rows
   over three names (self-loops included) with weights 0, 3 and 5, thresholds
   0 and 4, and characters tables with a missing row, an empty faction cell
   and a missing faction column *)
ExportWeights == {0, 3, 5}
ExportThresholds == {0, 4}
ExportRows == {Row(s, t, w) : s \in BuildNames, t \in BuildNames, w \in ExportWeights}

ExportTables ==
    {NoTable,
     NoFactionColumn,
     Table(<< [name |-> "A", faction |-> "Red"], [name |-> "B", faction |-> NaNCell] >>)}

InitExport ==
    \E d \in TablesUpTo(ExportRows, ExportRecords), thr \in ExportThresholds,
       kk \in BuildKs, t \in ExportTables :
        InitWith(d, t, thr, kk)

NextExport ==
    \/ BuildGraph
    \/ DetectCommunities
    \/ ExportDashboard
    \/ ExportVis
    \/ ExportPlotly

SpecExport == InitExport /\ [][NextExport]_vars

-----------------------------------------------------------------------------
(* The dashboard drawn for a graph with more communities than colorPalette
   has colours and more factions than factionColors has colours *)

(* Input family 6: ColorComms disjoint edges P1-P2, P3-P4, ... (one
   community each for k = 2) and ColorSolos nodes S1, S2, ... that only have
   a self-loop (no community), each solo node with a faction of its own *)
PairName(i) == "P" \o ToStr(i)
SoloName(j) == "S" \o ToStr(j)

ColorTable ==
    [i \in 1..ColorComms |-> Row(PairName(2 * i - 1), PairName(2 * i), 5)]
    \o [j \in 1..ColorSolos |-> Row(SoloName(j), SoloName(j), 5)]

\* seq rotated left by r places
Rotate(seq, r) == [i \in 1..Len(seq) |-> seq[((i - 1 + r) % Len(seq)) + 1]]

SoloCells ==
    <<"Red", "U+FF5E", "Blue", "Chola", NaNCell, "Green", "U+1D49C", "Pandya", "absent">>

\* the characters table that gives solo node j the j-th cell of cells
SoloTable(cells) ==
    LET Present(j) == cells[j] # "absent"
        js == SelectSeq([j \in 1..ColorSolos |-> j], Present)
    IN Table([i \in 1..Len(js) |-> [name |-> SoloName(js[i]), faction |-> cells[js[i]]]])

\* the communities of ColorTable in the order of its rows
PairCommunities == [i \in 1..ColorComms |-> {PairName(2 * i - 1), PairName(2 * i)}]

InitColors ==
    \E r \in 0..(ColorComms - 1), q \in 0..(Len(SoloCells) - 1) :
        /\ df = ColorTable
        /\ chars = SoloTable(Rotate(SoloCells, q))
        /\ threshold = DefaultThreshold
        /\ k = 2
        /\ pc = "detected"
        /\ G = build_graph(ColorTable, DefaultThreshold)
        /\ comms = Rotate(PairCommunities, r)
        /\ Range(comms) = {UNION F : F \in Components(G, 2)}
        /\ err = ""
        /\ NothingExported
        /\ cols = AllColumns
        /\ iter = <<>>
        /\ kq = <<>>

NextColors == ExportDashboard \/ OpenPage

SpecColors == InitColors /\ [][NextColors]_vars

-----------------------------------------------------------------------------
(* run_cpm_visualize.main *)

\* OUT_DIR and the files written into it
OutDir == "cpm_output"
CommunityCsv(kk) == "cpm_communities_k" \o ToStr(kk) \o ".csv"
NodeMapCsv(kk) == "node_community_map_k" \o ToStr(kk) \o ".csv"
Png(kk) == "cpm_k" \o ToStr(kk) \o ".png"
Gexf == "ps_graph_thresholded.gexf"

\* ensure_outdir()
CpmEnsureOutdir ==
    /\ pc = "cpm:start"
    /\ files' = files \cup {OutDir}
    /\ pc' = "cpm:outdir"
    /\ UNCHANGED <<node_info, kq>>
    /\ UNCHANGED pyVars0
    /\ UNCHANGED vmVars
    /\ UNCHANGED uiVars
    /\ UNCHANGED inVars
    /\ UNCHANGED drawVars
    /\ UNCHANGED posVars

\* df = read_data(interactions_path): ValueError when a required column is
\* missing
CpmReadData ==
    /\ pc = "cpm:outdir"
    /\ IF {"source", "target"} \subseteq cols
       THEN pc' = "cpm:read" /\ err' = err
       ELSE pc' = "failed" /\ err' = "ValueError: must contain columns"
    /\ UNCHANGED <<df, chars, threshold, k, G, comms>>
    /\ UNCHANGED vmVars
    /\ UNCHANGED uiVars
    /\ UNCHANGED inVars
    /\ UNCHANGED outVars
    /\ UNCHANGED drawVars
    /\ UNCHANGED posVars

\* G = build_threshold_graph(df, threshold=threshold)
CpmBuildGraph ==
    /\ pc = "cpm:read"
    /\ IF BuildError(df, cols) # ""
       THEN /\ err' = BuildError(df, cols)
            /\ pc' = "failed"
            /\ G' = G
       ELSE /\ G' = build_graph(df, threshold)
            /\ pc' = "cpm:loop"
            /\ err' = err
    /\ UNCHANGED <<df, chars, threshold, k, comms>>
    /\ UNCHANGED vmVars
    /\ UNCHANGED uiVars
    /\ UNCHANGED inVars
    /\ UNCHANGED outVars
    /\ UNCHANGED drawVars
    /\ UNCHANGED posVars

\* what draw_overlapping_communities raises for a graph without nodes:
\* np.percentile of an empty list raises IndexError, or returns nan, of which
\* int() raises ValueError, depending on the numpy version
DrawErrors == {"IndexError", "ValueError: cannot convert float NaN to integer"}

\* one pass of the loop over k_values: k_clique_communities, save_communities
\* (two CSV files), get_community_label_map, draw_overlapping_communities
\* (the PNG file)
CpmRunK ==
    /\ pc = "cpm:loop"
    /\ kq # <<>>
    /\ k' = Head(kq)
    /\ kq' = Tail(kq)
    /\ IF k' < 2
       THEN /\ err' = "NetworkXError"
            /\ pc' = "failed"
            /\ UNCHANGED <<comms, files>>
       ELSE /\ comms' \in k_clique_communities(G, k')
            /\ IF NodeSet(G) = {}
               THEN /\ err' \in DrawErrors
                    /\ pc' = "failed"
                    /\ files' = files \cup {CommunityCsv(k'), NodeMapCsv(k')}
               ELSE /\ err' = err
                    /\ pc' = "cpm:loop"
                    /\ files' = files \cup {CommunityCsv(k'), NodeMapCsv(k'), Png(k')}
    /\ UNCHANGED <<df, chars, threshold, G, node_info>>
    /\ UNCHANGED vmVars
    /\ UNCHANGED uiVars
    /\ UNCHANGED inVars
    /\ UNCHANGED drawVars
    /\ UNCHANGED posVars

\* after the loop: nx.write_gexf inside try/except
CpmWriteGexf ==
    /\ pc = "cpm:loop"
    /\ kq = <<>>
    /\ files' = files \cup {Gexf}
    /\ pc' = "done"
    /\ UNCHANGED <<node_info, kq>>
    /\ UNCHANGED pyVars0
    /\ UNCHANGED vmVars
    /\ UNCHANGED uiVars
    /\ UNCHANGED inVars
    /\ UNCHANGED drawVars
    /\ UNCHANGED posVars

-----------------------------------------------------------------------------
(* The four entry points run on small inputs, well-formed or not *)

(* Input family 7: every interactions table of at most ExportRecords rows
   over three names whose weight cells are 3, 5, empty or not a number, with
   or without the source column, threshold 4; the single-k scripts with
   k = 2 or 3, run_cpm_visualize with one or two k values *)
RunRows ==
    BuildRows \cup {BadRow(s, t, c) : s \in BuildNames, t \in BuildNames, c \in {NaNCell, TextCell}}

RunColumns == {AllColumns, AllColumns \ {"source"}}

KLists == {<<3>>, <<2, 3>>, <<3, 1>>}

\* pc at the entry of the three single-file exporters, and of
\* run_cpm_visualize.main
EntryPoints == {"start", "cpm:start"}

InitRuns ==
    \E d \in TablesUpTo(RunRows, ExportRecords), cs \in RunColumns,
       e \in EntryPoints, kk \in BuildKs, ks \in KLists :
        /\ df = d
        /\ chars = NoTable
        /\ threshold = DefaultThreshold
        /\ pc = e
        /\ k = IF e = "start" THEN kk ELSE Head(ks)
        /\ kq = IF e = "start" THEN <<>> ELSE ks
        /\ G = EmptyGraph
        /\ comms = <<>>
        /\ err = ""
        /\ NothingExported
        /\ cols = cs
        /\ iter = <<>>

NextRuns ==
    \/ BuildGraph
    \/ DetectCommunities
    \/ ExportDashboard
    \/ ExportVis
    \/ ExportPlotly
    \/ CpmEnsureOutdir
    \/ CpmReadData
    \/ CpmBuildGraph
    \/ CpmRunK
    \/ CpmWriteGexf

SpecRuns == InitRuns /\ [][NextRuns]_vars

-----------------------------------------------------------------------------
(* Reference definitions used by the properties *)

\* rows of the table that connect u and v, in either direction
RowsBetween(d, u, v) == {i \in 1..Len(d) : {d[i].source, d[i].target} = {u, v}}

\* rows whose own weight reaches the threshold
OwnWeightRows(d, thr) == {i \in 1..Len(d) : d[i].weight >= thr}

RECURSIVE SumWeights(_, _)
SumWeights(d, I) ==
    IF I = {} THEN 0
    ELSE LET i == CHOOSE i \in I : TRUE
         IN d[i].weight + SumWeights(d, I \ {i})

\* every identity named by a row of the table
Endpoints(d) == {d[i].source : i \in 1..Len(d)} \cup {d[i].target : i \in 1..Len(d)}

\* u and v are joined by an edge between distinct nodes
Joined(g, u, v) == u # v /\ {u, v} \in EdgeSet(g)

IsClique(g, S) == \A u, v \in S : u # v => Joined(g, u, v)

\* maximal cliques by definition: non-empty cliques no further node extends
MaximalCliques(g) ==
    {S \in SUBSET NodeSet(g) :
        /\ S # {}
        /\ IsClique(g, S)
        /\ \A w \in NodeSet(g) \ S : ~IsClique(g, S \cup {w})}

Retained(g, kk) == {S \in MaximalCliques(g) : Cardinality(S) >= kk}

\* a set F of cliques of the family R closed under "shares at least k-1 nodes"
ClosedFamily(R, kk, F) ==
    \A c \in F : \A a \in R :
        Cardinality(c \cap a) >= kk - 1 => a \in F

\* connected components of the clique graph: minimal non-empty closed families
CliqueGraphComponents(g, kk) ==
    LET R == Retained(g, kk)
        closed == {F \in SUBSET R : F # {} /\ ClosedFamily(R, kk, F)}
    IN {F \in closed : \A H \in closed : H \subseteq F => H = F}

Done == pc = "detected"

StrictSubset(a, b) == a \subseteq b /\ a # b

-----------------------------------------------------------------------------
(* Properties *)

\* C1: after build_graph, the weight of every unordered pair {u,v} is the sum
\* of the weights of exactly the rows that connect u and v (either direction)
\* and whose own weight is >= threshold; a pair without such a row has no
\* edge, even when the weights of its rows add up to the threshold.
C1_AggregatedWeight ==
    pc # "start" =>
        \A u, v \in Endpoints(df) \cup NodeSet(G) :
            LET I == RowsBetween(df, u, v) \cap OwnWeightRows(df, threshold)
            IN IF I = {}
               THEN ~HasEdge(G, u, v)
               ELSE HasEdge(G, u, v) /\ G.weight[{u, v}] = SumWeights(df, I)

\* C1 witness: a pair with qualifying rows in both directions and a row
\* below the threshold, aggregated to the sum of the two qualifying rows
C1_Witness ==
    /\ pc = "built"
    /\ \E i, j, l \in 1..Len(df) :
          /\ i # j
          /\ df[i].source # df[i].target
          /\ df[j].source = df[i].target /\ df[j].target = df[i].source
          /\ {df[l].source, df[l].target} = {df[i].source, df[i].target}
          /\ df[i].weight >= threshold /\ df[j].weight >= threshold
          /\ df[l].weight < threshold
          /\ G.weight[{df[i].source, df[i].target}] = df[i].weight + df[j].weight

\* C2: for k >= 2 detect_communities returns exactly the clique-percolation
\* communities: one list entry per connected component of the clique graph
\* (maximal cliques of size >= k, joined when they share >= k-1 nodes), each
\* the union of the nodes of the component's cliques.
C2_ExactlyCPM ==
    (Done /\ k >= 2) =>
        LET components == CliqueGraphComponents(G, k)
        IN /\ Len(comms) = Cardinality(components)
           /\ Range(comms) = {UNION F : F \in components}

\* C2 witness: two communities, one of them the union of several cliques
C2_Witness ==
    /\ Done
    /\ Len(comms) = 2
    /\ \E i \in 1..2 : ~IsClique(G, comms[i])

\* C3 as stated: no returned community is a strict subset of another
C3_NoStrictSubset ==
    (Done /\ k >= 2) =>
        \A i, j \in 1..Len(comms) : ~StrictSubset(comms[i], comms[j])

\* C3 amended: no returned community is a strict subset of another when
\* k = 2 or the graph has at most 8 nodes.
C3_NoStrictSubsetSmall ==
    (Done /\ k >= 2 /\ (k = 2 \/ Cardinality(NodeSet(G)) <= 8)) =>
        \A i, j \in 1..Len(comms) : ~StrictSubset(comms[i], comms[j])

\* C3 witness: two overlapping communities, neither inside the other
C3_Witness ==
    /\ Done
    /\ Cardinality(NodeSet(G)) <= 8
    /\ \E i, j \in 1..Len(comms) :
          /\ i # j
          /\ comms[i] \cap comms[j] # {}
          /\ ~(comms[i] \subseteq comms[j])
          /\ ~(comms[j] \subseteq comms[i])

\* C4: for k >= 2 every returned community has at least k members, all of
\* them nodes of the graph, and contains a maximal clique of size >= k.
C4_CommunityShape ==
    (Done /\ k >= 2) =>
        \A i \in 1..Len(comms) :
            /\ Cardinality(comms[i]) >= k
            /\ comms[i] \subseteq NodeSet(G)
            /\ \E S \in Retained(G, k) : S \subseteq comms[i]

\* C4 witness: a community with more than k members
C4_Witness ==
    /\ Done
    /\ k >= 3
    /\ \E i \in 1..Len(comms) : Cardinality(comms[i]) > k

\* C5: for k >= 2, when k exceeds the size of every clique of the graph, or
\* the graph has no edges, detection ends without error and returns the
\* empty list.
C5_NoCliqueNoCommunity ==
    LET small == \A S \in MaximalCliques(G) : Cardinality(S) < k
    IN (pc \in {"detected", "failed"} /\ k >= 2 /\ (small \/ EdgeSet(G) = {})) =>
           (pc = "detected" /\ err = "" /\ comms = <<>>)

\* C5 witness: a graph with edges whose cliques are all smaller than k
C5_Witness ==
    /\ Done
    /\ EdgeSet(G) # {}
    /\ \A S \in MaximalCliques(G) : Cardinality(S) < k
    /\ comms = <<>>

\* C6: the node set of the built graph is exactly the set of endpoints of the
\* rows whose own weight is >= threshold; when every row is below the
\* threshold the graph has no node and no edge, and for every k >= 2
\* detection returns no community.
C6_NodesOfQualifyingRows ==
    LET I == OwnWeightRows(df, threshold)
    IN pc # "start" =>
          /\ NodeSet(G) = {df[i].source : i \in I} \cup {df[i].target : i \in I}
          /\ I = {} => (G.nodes = <<>> /\ EdgeSet(G) = {})
          /\ (I = {} /\ k >= 2 /\ pc # "built") => (Done /\ comms = <<>>)

\* C6 witness: a non-empty table whose rows are all below the threshold
C6_Witness ==
    /\ Done
    /\ df # <<>>
    /\ OwnWeightRows(df, threshold) = {}
    /\ G.nodes = <<>>
    /\ comms = <<>>

\* the table is exactly the three edges of the triangle on A, B, C
TriangleTable(d) ==
    /\ Len(d) = 3
    /\ {{d[i].source, d[i].target} : i \in 1..3} = {{"A", "B"}, {"B", "C"}, {"A", "C"}}

\* C7: a table that is exactly the three edges of a triangle on A, B, C, every
\* weight >= threshold, run with k = 3, gives a graph with 3 nodes and 3
\* edges and exactly one community, {A, B, C}.
C7_Triangle ==
    (Done /\ k = 3 /\ TriangleTable(df) /\ OwnWeightRows(df, threshold) = {1, 2, 3}) =>
        /\ Len(G.nodes) = 3
        /\ Cardinality(EdgeSet(G)) = 3
        /\ comms = <<{"A", "B", "C"}>>

\* C7 witness: the triangle run has finished detection
C7_Witness ==
    /\ Done
    /\ k = 3
    /\ TriangleTable(df)
    /\ OwnWeightRows(df, threshold) = {1, 2, 3}
    /\ Len(comms) = 1

\* ids of the communities whose checkbox is checked
ActiveCommunities(cc) == {cid \in 0..(Len(comms) - 1) : ToStr(cid) \in cc}

\* the filter contract: AND between the facets, OR within a facet
FilterContract(ns, cf, cc) ==
    {ns[i].id : i \in {j \in 1..Len(ns) :
        /\ cf = {} \/ ns[j].faction \in cf
        /\ ActiveCommunities(cc) = {}
           \/ Range(ns[j].communities) \cap ActiveCommunities(cc) # {}}}

\* a step in which applyFilters runs
AppliesFilters ==
    \/ FactionChange
    \/ CommChange
    \/ client = "dashboard" /\ SearchEnter(<<>>)
    \/ client = "vis" /\ OpenPage

\* C8: whenever applyFilters runs, in either page, the nodes it leaves
\* visible are exactly those with (no faction box checked or the node's
\* faction checked) and (no community box checked or one of the node's
\* communities checked).
C8_FilterSemantics ==
    [][AppliesFilters => shown' = FilterContract(nodesJ, checkedF', checkedC')]_vars

\* C8 witness: faction filter {Red} and community filter {0} are active; a Red
\* node of community 0 is shown and a Red node outside community 0 is hidden
C8_Witness ==
    /\ pc = "open"
    /\ checkedF = {"Red"}
    /\ checkedC = {"0"}
    /\ shown = Visible(client, nodesJ, checkedF, checkedC)
    /\ \E i, j \in 1..Len(nodesJ) :
          /\ nodesJ[i].faction = "Red" /\ nodesJ[i].communities = <<0>>
          /\ nodesJ[i].id \in shown
          /\ nodesJ[j].faction = "Red" /\ nodesJ[j].communities = <<1>>
          /\ nodesJ[j].id \notin shown

\* ids of the nodes whose label contains q, case-insensitively
Matching(q) ==
    {n \in NodeSet(G) : Contains(ToLower(Label(n)), ToLower(q))}

\* the matches and every node that shares an edge with a match
MatchesAndNeighbours(q) ==
    Matching(q) \cup {n \in NodeSet(G) : \E m \in Matching(q) : {m, n} \in EdgeSet(G)}

\* C9 as stated: a search with a non-empty query that matches a node leaves
\* displayed, in either page, exactly the matches and their neighbours.
C9_SearchReveals ==
    [][\A value \in Queries :
          (SearchEnter(value) /\ Trim(value) # <<>> /\ Matching(Trim(value)) # {})
              => shown' = MatchesAndNeighbours(Trim(value))]_vars

\* C9, dashboard page alone: the search handler of the dashboard redraws the
\* node trace with exactly the matches and their neighbours.
C9_DashboardReveals ==
    [][\A value \in Queries :
          (client = "dashboard" /\ SearchEnter(value)
              /\ Trim(value) # <<>> /\ Matching(Trim(value)) # {})
              => shown' = MatchesAndNeighbours(Trim(value))]_vars

\* C10: a search with a non-empty query that matches no label raises the
\* no-match alert of the page and changes neither the displayed nodes nor
\* any node data; the page stays usable.
C10_SearchMiss ==
    [][\A value \in Queries :
          (Trim(value) # <<>> /\ Matching(Trim(value)) = {} /\ SearchEnter(value))
              => /\ alertMsg' = IF client = "dashboard"
                                THEN <<"No node found for: ", ToLower(Trim(value))>>
                                ELSE <<"No node">>
                 /\ shown' = shown
                 /\ highlight' = highlight
                 /\ nodesJ' = nodesJ /\ edgesJ' = edgesJ
                 /\ pc' = "open"]_vars

\* C10 witness: a page with nodes on display has reported a miss
C10_Witness ==
    /\ pc = "open"
    /\ alertMsg # <<>>
    /\ shown # {}
    /\ shown = Ids(nodesJ)

\* the members of community cid that have a row in the characters table
TableMembers(cid) == {n \in comms[cid + 1] : n \in DOMAIN FactionMap(chars)}

\* how many of those members carry faction f
FactionCount(cid, f) ==
    Cardinality({n \in TableMembers(cid) : FactionMap(chars)[n] = f})

\* position, in the iteration of community cid, of the first member that
\* carries faction f
FirstMet(cid, f) ==
    CHOOSE i \in 1..Len(iter[cid + 1]) :
        /\ iter[cid + 1][i] \in TableMembers(cid)
        /\ FactionMap(chars)[iter[cid + 1][i]] = f
        /\ \A j \in 1..(i - 1) :
              iter[cid + 1][j] \in TableMembers(cid) => FactionMap(chars)[iter[cid + 1][j]] # f

\* C11: for every community with a member in the characters table, the label
\* names a faction whose count among those members is maximal, and among the
\* factions that tie for the maximum the one met first when the community's
\* members are iterated.
C11_MajorityFirstMet ==
    pc = "labels:done" =>
        \A cid \in DOMAIN comm_labels :
            TableMembers(cid) # {} =>
                LET present == {FactionMap(chars)[n] : n \in TableMembers(cid)}
                    f == comm_labels[cid].text
                IN /\ f \in present
                   /\ \A g \in present :
                         \/ FactionCount(cid, g) < FactionCount(cid, f)
                         \/ /\ FactionCount(cid, g) = FactionCount(cid, f)
                            /\ FirstMet(cid, f) <= FirstMet(cid, g)

\* C11 witness: Red and Blue tie in community 0, a Blue member is iterated
\* before every Red member although a Red member comes first in the table,
\* and the label says Blue
C11_Witness ==
    /\ pc = "labels:done"
    /\ FactionCount(0, "Red") = FactionCount(0, "Blue")
    /\ FactionCount(0, "Red") > 0
    /\ FirstMet(0, "Blue") < FirstMet(0, "Red")
    /\ chars.rows[1].faction = "Red"
    /\ comm_labels[0].text = "Blue"

\* a member carries an external category: the characters table has a row for
\* it whose faction cell holds a value
CarriesCategory(n) ==
    /\ chars.present
    /\ \E i \in 1..Len(chars.rows) :
          /\ chars.rows[i].name = n
          /\ "faction" \in DOMAIN chars.rows[i]
          /\ chars.rows[i].faction # NaNCell

\* the synthetic label text of community cid
Fallback(cid) == "c" \o ToStr(cid)

\* C12 as stated: a community none of whose members carries a category (the
\* member has no row, or its row has an empty faction) gets the fallback
\* label c<id> (size=<n>), and no label has an empty category part.
C12_FallbackLabel ==
    pc = "labels:done" =>
        \A cid \in DOMAIN comm_labels :
            /\ (\A n \in comms[cid + 1] : ~CarriesCategory(n)) =>
                   comm_labels[cid] = [text |-> Fallback(cid), size |-> Cardinality(comms[cid + 1])]
            /\ comm_labels[cid].text # ""

\* C12, the part the code keeps: a community none of whose members has a row
\* in the characters table gets the fallback label.
C12_FallbackWhenAbsent ==
    pc = "labels:done" =>
        \A cid \in DOMAIN comm_labels :
            TableMembers(cid) = {} =>
                comm_labels[cid] = [text |-> Fallback(cid), size |-> Cardinality(comms[cid + 1])]

\* an exporter has run to its end or has been aborted
ExportEnded == pc \in {"exported", "written", "failed"}

\* a <= b for exact quotients
RatLeq(a, b) == a.num * b.den <= b.num * a.den

\* the base of the size formula of the exporter that ran
BaseSize == IF client = "vis" THEN 5 ELSE 8

\* the size the exporter gave node n, as a quotient
SizeOf(n) ==
    IF client = "vis" THEN Rat(node_info[n].value, 1) ELSE node_info[n].size

\* every node has a size, none below the base, and the sizes never decrease
\* when the weighted degree increases
SizesInOrder ==
    /\ DOMAIN node_info = NodeSet(G)
    /\ \A n \in NodeSet(G) : RatLeq(Rat(BaseSize, 1), SizeOf(n))
    /\ \A n, m \in NodeSet(G) :
          Degree(G, n) > Degree(G, m) => RatLeq(SizeOf(m), SizeOf(n))

\* C13 as stated: for every graph build_graph returns, each exporter computes
\* a size for every node without failing, no size is below the base of the
\* formula, and a larger weighted degree never gets a smaller size.
C13_NodeSizes ==
    ExportEnded => (pc # "failed" /\ SizesInOrder)

\* C13, the part the code keeps: the Plotly dashboard always computes the
\* sizes, and the other two exporters do when some node has a non-zero
\* weighted degree.
C13_SizesUnlessAllZero ==
    (ExportEnded /\ (client = "dashboard" \/ ~DividesByZero(G))) =>
        (pc # "failed" /\ SizesInOrder)

\* the aggregated weights of the edges at n, each edge once
RECURSIVE IncidentWeight(_, _)
IncidentWeight(n, E) ==
    IF E = {} THEN 0
    ELSE LET e == CHOOSE x \in E : TRUE
         IN (IF n \in e THEN G.weight[e] ELSE 0) + IncidentWeight(n, E \ {e})

\* C14 as stated: the exported degree of every node is the sum of the
\* aggregated weights of the edges incident to it, each edge counted once.
C14_DegreeIsIncidentWeight ==
    (pc \in {"exported", "written"} /\ client \in {"dashboard", "plotly"}) =>
        \A n \in NodeSet(G) : node_info[n].degree = IncidentWeight(n, EdgeSet(G))

\* C14, the part the code keeps: the exported degree of a node without a
\* self-loop is the sum of the aggregated weights of its edges.
C14_DegreeWithoutSelfLoop ==
    (pc \in {"exported", "written"} /\ client \in {"dashboard", "plotly"}) =>
        \A n \in NodeSet(G) :
            {n} \notin EdgeSet(G) => node_info[n].degree = IncidentWeight(n, EdgeSet(G))

\* C15 as stated: every exported node whose category is missing (no row in
\* the characters table, or a row with an empty faction) has the category
\* "Unknown"; no exported node has the empty string as category and the
\* exported list of categories does not contain it.
C15_UnknownCategory ==
    pc = "exported" =>
        /\ \A i \in 1..Len(nodesJ) :
              /\ ~CarriesCategory(nodesJ[i].id) => nodesJ[i].faction = "Unknown"
              /\ nodesJ[i].faction # ""
        /\ "" \notin Range(factions_list)

\* C15, the part the code keeps: a node without a row in the characters
\* table is exported with the category "Unknown".
C15_UnknownWhenAbsent ==
    pc = "exported" =>
        \A i \in 1..Len(nodesJ) :
            nodesJ[i].id \notin DOMAIN FactionMap(chars) => nodesJ[i].faction = "Unknown"

\* the smallest element of a non-empty set of numbers
Lowest(S) == CHOOSE x \in S : \A y \in S : x <= y

\* C16 as stated: in the dashboard a node with a community has the colour
\* colorPalette[c mod 10], c its lowest community id, which is the colour of
\* community c in the legend; a node without a community has the colour
\* factionColors[i mod 6], i the position of its faction in the sorted list
\* of distinct factions, which is the colour of that faction in the legend.
C16_NodeColors ==
    (pc = "open" /\ client = "dashboard") =>
        \A j \in 1..Len(nodesJ) :
            LET n == nodesJ[j]
            IN IF n.communities # <<>>
               THEN LET c == Lowest(Range(n.communities))
                    IN /\ marker_color[n.id] = colorPalette[(c % 10) + 1]
                       /\ marker_color[n.id] = legend.comms[ToStr(c)]
               ELSE LET i == IndexOf(SortedFactions(nodesJ), n.faction)
                    IN /\ marker_color[n.id] = factionColors[(i % 6) + 1]
                       /\ marker_color[n.id] = legend.factions[n.faction]

\* C16, the part the code keeps: the same, for pages whose factions are
\* sorted alike by Python and by JavaScript.
C16_NodeColorsSameOrder ==
    (pc = "open" /\ client = "dashboard" /\ JsSortedFactions(nodesJ) = factions_list) =>
        \A j \in 1..Len(nodesJ) :
            LET n == nodesJ[j]
            IN IF n.communities # <<>>
               THEN LET c == Lowest(Range(n.communities))
                    IN /\ marker_color[n.id] = colorPalette[(c % 10) + 1]
                       /\ marker_color[n.id] = legend.comms[ToStr(c)]
               ELSE LET i == IndexOf(SortedFactions(nodesJ), n.faction)
                    IN /\ marker_color[n.id] = factionColors[(i % 6) + 1]
                       /\ marker_color[n.id] = legend.factions[n.faction]

\* the page shows a node of a community with id >= 10 and a node without a
\* community whose faction is at position >= 6, and both orders agree
C16_WrapsAround ==
    /\ pc = "open"
    /\ client = "dashboard"
    /\ JsSortedFactions(nodesJ) = factions_list
    /\ \E j \in 1..Len(nodesJ) :
          nodesJ[j].communities # <<>> /\ nodesJ[j].communities[1] >= 10
    /\ \E j \in 1..Len(nodesJ) :
          nodesJ[j].communities = <<>> /\ IndexOf(factions_list, nodesJ[j].faction) >= 6

-----------------------------------------------------------------------------
(* C17: empty results *)

\* the interactions table has its columns, every weight cell is a number and
\* the clique size in use is legal
WellFormedInput ==
    /\ cols = AllColumns
    /\ \A i \in 1..Len(df) : "weight" \in DOMAIN df[i]
    /\ k >= 2

\* the run has passed graph construction and the graph has no node
NoNodes == pc \notin {"start", "cpm:start", "cpm:outdir", "cpm:read"} /\ NodeSet(G) = {}

\* detection has run for the clique size in use and found no community
NoCommunities ==
    /\ pc \in {"detected", "exported", "written", "done", "failed"}
       \/ (pc = "cpm:loop" /\ CommunityCsv(k) \in files)
    /\ comms = <<>>

\* the run is inside run_cpm_visualize.main
InCpm == OutDir \in files

\* C17 as stated: on well-formed input whose graph has no node, or in which
\* no community is found, every entry point runs to its end without raising.
C17_EmptyResultsComplete ==
    (WellFormedInput /\ (NoNodes \/ NoCommunities)) => pc # "failed"

\* C17, the part the code keeps: the three HTML exporters complete on a graph
\* without nodes and on a graph without communities and write their file;
\* run_cpm_visualize completes when the graph has a node.
C17_CompleteUnlessCpmNoNodes ==
    (WellFormedInput /\ (NoNodes \/ NoCommunities) /\ ~(InCpm /\ NoNodes)) =>
        /\ pc # "failed"
        /\ pc \in {"exported", "written"} => OutFile \in files
        /\ pc = "done" => {CommunityCsv(k), NodeMapCsv(k), Png(k), Gexf} \subseteq files

\* an exporter has completed on a graph without nodes
C17_ExporterOnNoNodes ==
    WellFormedInput /\ NoNodes /\ pc \in {"exported", "written"} /\ OutFile \in files

\* run_cpm_visualize has completed without finding a community
C17_CpmOnNoCommunities ==
    WellFormedInput /\ NoCommunities /\ pc = "done"

-----------------------------------------------------------------------------
(* C18: nothing is written by a run that aborts *)

\* C18 as stated: after a run has aborted, no file and no directory written
\* by it exists.
C18_NothingWrittenOnAbort ==
    pc = "failed" => files = {}

\* C18, the part the code keeps: the three HTML exporters write their single
\* file as their last step, so a step of theirs that aborts leaves nothing.
C18_ExportersWriteLast ==
    [][(pc \in {"start", "built", "detected"} /\ pc' = "failed") => files' = {}]_vars

\* an exporter has aborted on a weight cell that is not a number
C18_ExporterAborted ==
    pc = "failed" /\ ~InCpm /\ err = "ValueError: could not convert string to float"

\* run_cpm_visualize has aborted in its second pass of the loop over k
C18_CpmAbortedInSecondPass ==
    pc = "failed" /\ InCpm /\ k = 1 /\ Png(3) \in files

-----------------------------------------------------------------------------
(* C19: an empty weight cell *)

\* graph construction has been attempted
PastBuild == pc \notin {"start", "cpm:start", "cpm:outdir", "cpm:read"}

\* the interactions table has a weight column and a row whose weight is empty
HasEmptyWeight == "weight" \in cols /\ \E i \in 1..Len(df) : IsNaN(df[i])

\* the rows of d whose weight cell is not empty
WithoutEmptyWeights(d) ==
    LET filled(r) == ~IsNaN(r) IN SelectSeq(d, filled)

\* C19 as stated: when a row has an empty weight cell, graph construction
\* fails with an error.
C19_EmptyWeightIsAnError ==
    (PastBuild /\ HasEmptyWeight) => (pc = "failed" /\ G = EmptyGraph /\ err # "")

\* what the code does instead: when construction raises nothing, the graph is
\* the graph of the table without the rows whose weight is empty.
C19_EmptyWeightDropped ==
    (PastBuild /\ BuildError(df, cols) = "") =>
        G = build_graph(WithoutEmptyWeights(df), threshold)

\* a table with an empty weight cell next to a qualifying row has been built
\* into a graph with the edge of the qualifying row only
C19_BuiltWithEmptyWeight ==
    /\ PastBuild
    /\ HasEmptyWeight
    /\ BuildError(df, cols) = ""
    /\ Cardinality(NodeSet(G)) = 2
    /\ \E i \in 1..Len(df) : IsNaN(df[i]) /\ {df[i].source, df[i].target} \cap NodeSet(G) = {}

-----------------------------------------------------------------------------
(* C20: self-loop records *)

\* row i of the table is a self-loop whose weight reaches the threshold
QualifyingLoop(i) ==
    /\ "weight" \in DOMAIN df[i]
    /\ df[i].source = df[i].target
    /\ Qualifies(df[i].weight, threshold)

\* the table d without its row i
WithoutRecord(d, i) == SubSeq(d, 1, i - 1) \o SubSeq(d, i + 1, Len(d))

\* the set of communities detected in the graph of table d
CommunitySet(d) == {UNION F : F \in Components(build_graph(d, threshold), k)}

\* C20: a self-loop record whose weight reaches the threshold raises no
\* error, its node is in the graph, and the set of communities detected is
\* the set detected for the table without that record.
C20_SelfLoopsChangeNothing ==
    \A i \in 1..Len(df) :
        QualifyingLoop(i) =>
            /\ pc # "failed"
            /\ pc \in {"built", "detected"} => df[i].source \in NodeSet(G)
            /\ pc = "detected" => Range(comms) = CommunitySet(WithoutRecord(df, i))

\* communities have been detected in a graph whose table has a qualifying
\* self-loop record on a member of a community
C20_LoopOnMember ==
    /\ pc = "detected"
    /\ \E i \in 1..Len(df) :
          /\ QualifyingLoop(i)
          /\ \E j \in 1..Len(comms) : df[i].source \in comms[j]

-----------------------------------------------------------------------------
(* C21: position operations of the vis page *)

\* a step of the open vis page that is no checkbox change: a drag, a save, a
\* load, a download or an upload
PositionStep ==
    /\ pc = "open"
    /\ pc' = "open"
    /\ client = "vis"
    /\ checkedF' = checkedF
    /\ checkedC' = checkedC

\* the step leaves the embedded data alone, and with it what applyFilters
\* computes
KeepsData ==
    /\ nodesJ' = nodesJ
    /\ edgesJ' = edgesJ
    /\ comm_labels' = comm_labels
    /\ factions_list' = factions_list
    /\ VisibleVis(nodesJ', checkedF', checkedC') = VisibleVis(nodesJ, checkedF, checkedC)

\* C21 as stated: a position operation leaves the embedded data and the
\* result of applyFilters alone, and adds no node to and removes no node
\* from the display: the items of the DataSet and the displayed nodes stay
\* the same.
C21_PositionOpsOnlyMove ==
    [][PositionStep =>
          /\ KeepsData
          /\ DOMAIN positions' = DOMAIN positions
          /\ shown' = shown]_vars

\* C21, the part the code keeps: a position operation leaves the embedded
\* data and the result of applyFilters alone, removes nothing, and whatever
\* it adds to the display is not a node of the exported data.
C21_PositionOpsKeepData ==
    [][PositionStep =>
          /\ KeepsData
          /\ DOMAIN positions \subseteq DOMAIN positions'
          /\ shown \subseteq shown'
          /\ (shown' \ shown) = (DOMAIN positions' \ DOMAIN positions)
          /\ (DOMAIN positions' \ DOMAIN positions) \cap Ids(nodesJ) = {}]_vars

\* the display has an item that is no node of the exported data
C21_ForeignNodeDisplayed ==
    pc = "open" /\ client = "vis" /\ \E id \in shown : id \notin Ids(nodesJ)

\* a node of the page has been dragged, saved and loaded back fixed
C21_LoadedBack ==
    /\ pc = "open"
    /\ client = "vis"
    /\ storage # <<>>
    /\ \E id \in Ids(nodesJ) : positions[id] = Placed(7, 7, TRUE)

-----------------------------------------------------------------------------
(* C22: the applyFilters call at load time of the vis page *)

\* the step in which the script of the vis page runs
VisLoad == pc = "exported" /\ pc' = "open" /\ client = "vis"

\* ids of the exported nodes that are in no community
Unaffiliated(ns) == {ns[i].id : i \in {j \in 1..Len(ns) : Len(ns[j].communities) = 0}}

\* C22 as stated: right after the vis page has loaded, with every checkbox
\* checked, every exported node is displayed.
C22_LoadHidesNothing ==
    [][VisLoad => shown' = Ids(nodesJ')]_vars

\* what the code does: every checkbox is checked at load; when there is no
\* community every node is displayed, and when there is one, exactly the
\* nodes that are in no community are hidden.
C22_LoadHidesUnaffiliated ==
    [][VisLoad =>
          /\ checkedF' = Range(factions_list')
          /\ checkedC' = DOMAIN comm_labels'
          /\ shown' = IF comm_labels' = <<>>
                      THEN Ids(nodesJ')
                      ELSE Ids(nodesJ') \ Unaffiliated(nodesJ')]_vars

\* the vis page is open with every checkbox checked and a node hidden
C22_HiddenAtLoad ==
    /\ pc = "open"
    /\ client = "vis"
    /\ checkedF = Range(factions_list)
    /\ checkedC = DOMAIN comm_labels
    /\ shown # Ids(nodesJ)

-----------------------------------------------------------------------------
(* C23: the exported view model is referentially closed *)

\* ids 0 .. n-1
CommunityIds(n) == {i - 1 : i \in 1..n}

\* C23: in what the two interactive exporters write, both ends of every edge
\* are ids of exported nodes; a community id is in a node's list exactly when
\* the node is a member of that community; every list is strictly
\* increasing; and the keys of the label map are exactly the ids
\* 0 .. (number of communities - 1), so every listed id is a key.
C23_ViewModelClosed ==
    pc = "exported" =>
        /\ \A i \in 1..Len(edgesJ) : {edgesJ[i].source, edgesJ[i].target} \subseteq Ids(nodesJ)
        /\ \A i \in 1..Len(nodesJ) :
              LET n == nodesJ[i]
              IN /\ \A c \in CommunityIds(Len(comms)) :
                       c \in Range(n.communities) <=> n.id \in comms[c + 1]
                 /\ Range(n.communities) \subseteq CommunityIds(Len(comms))
                 /\ \A a, b \in 1..Len(n.communities) :
                       a < b => n.communities[a] < n.communities[b]
                 /\ \A c \in Range(n.communities) : ToStr(c) \in DOMAIN comm_labels
        /\ DOMAIN comm_labels = {ToStr(c) : c \in CommunityIds(Len(comms))}

\* a view model has been exported in which a node is in two communities
C23_SharedNodeExported ==
    /\ pc = "exported"
    /\ edgesJ # <<>>
    /\ Len(comms) = 2
    /\ \E i \in 1..Len(nodesJ) : nodesJ[i].communities = <<0, 1>>

====
